---- MODULE Spec2Model ----
(***************************************************************************)
(* Model of comment_cleaner.py: the dispatcher strip_comments and the six  *)
(* scanners it calls.  Text is a sequence of one-character strings; the    *)
(* read index i is 0-based as in the source, so src[i] of the source is    *)
(* At(src, i) here.  Each iteration of a scanner's main loop is one step.  *)
(***************************************************************************)
EXTENDS Integers, Sequences, FiniteSets, TLC

\* lang, src : the arguments of strip_comments
\* pc        : "start", the scanner that is running, or "done"
\* text      : the text the running loop reads (src, or for Ruby the text left by
\*             the =begin/=end substitution)
\* i         : the read index of the loop (the line number in the line scanner)
\* out       : the output buffer (out, res or out_lines of the source)
VARIABLES lang, src, pc, text, i, out, state, template_brace_depth,
          comments, removed_chars

vars == <<lang, src, pc, text, i, out, state, template_brace_depth,
          comments, removed_chars>>

\* Longest input, counted in fragments of the language's fragment set.
MaxLen == 4

----------------------------------------------------------------------------
\* Text helpers

\* src[j] if 0 <= j < n else "" (peek, and the ch2/ch3 look-ahead)
At(s, j) == IF 0 <= j /\ j < Len(s) THEN s[j + 1] ELSE ""

\* s[a:b] of the source (0-based, b exclusive)
Slice(s, a, b) == SubSeq(s, a + 1, b)

Min(S) == CHOOSE x \in S : \A y \in S : x <= y

\* The backtick character (written out, as the module's own lexical syntax
\* reserves the character itself).
BACKTICK == "BACKTICK"

\* the characters of "\n\r"
EOL == {"\n", "\r"}

\* the characters str.rstrip() removes, among those the inputs are made of
WHITESPACE == {" ", "\t", "\n", "\r"}

\* j = from; while j < n and s[j] not in "\n\r": j += 1
SkipToEol(s, from) ==
    Min({j \in from..Len(s) : j = Len(s) \/ At(s, j) \in EOL})

\* BlockEnd with the search for the closer started one character early, on
\* the opener's own star.
BlockEndOverlap(s, p) ==
    LET n == Len(s)
        j == IF p + 1 >= n - 1 THEN p + 1
             ELSE Min({k \in (p + 1)..(n - 1) :
                         k = n - 1 \/ (At(s, k) = "*" /\ At(s, k + 1) = "/")})
    IN  IF j < n THEN j + 2 ELSE n

\* j = i + 2; while j < n - 1 and not (s[j] == "*" and s[j+1] == "/"): j += 1
\* j = j + 2 if j < n else n
BlockEnd(s, p) ==
    LET n == Len(s)
        j == IF p + 2 >= n - 1 THEN p + 2
             ELSE Min({k \in (p + 2)..(n - 1) :
                         k = n - 1 \/ (At(s, k) = "*" /\ At(s, k + 1) = "/")})
    IN  IF j < n THEN j + 2 ELSE n

----------------------------------------------------------------------------
\* Scanner state as a record, so that one loop iteration is a function.

Scan0 == [i |-> 0, out |-> <<>>, state |-> 0, depth |-> 0,
          comments |-> 0, removed |-> 0]

IN_STR_SGL == 1
IN_STR_DBL == 2
IN_TEMPLATE == 3

\* InQuote for a string kind that a raw line terminator closes.
InQuoteCloseAtNewline(s, sc, q) ==
    LET ch == At(s, sc.i) IN
    IF ch = "\\" /\ sc.i + 1 < Len(s)
    THEN [sc EXCEPT !.out = sc.out \o <<ch, At(s, sc.i + 1)>>, !.i = sc.i + 2]
    ELSE [sc EXCEPT !.out = Append(sc.out, ch), !.i = sc.i + 1,
                    !.state = IF ch = q \/ ch \in {"\n", "\r"} THEN 0 ELSE sc.state]

\* InQuote without the escape branch: a backslash is copied like any other
\* character and the character after it is inspected.
InQuoteNoEscape(s, sc, q) ==
    LET ch == At(s, sc.i) IN
    [sc EXCEPT !.out = Append(sc.out, ch), !.i = sc.i + 1,
               !.state = IF ch = q THEN 0 ELSE sc.state]

\* One iteration inside a single- or double-quoted string whose delimiter is q:
\* copy ch; a backslash also copies the next character and skips it; the
\* delimiter returns to code.
InQuote(s, sc, q) ==
    LET ch == At(s, sc.i) IN
    IF ch = "\\" /\ sc.i + 1 < Len(s)
    THEN [sc EXCEPT !.out = sc.out \o <<ch, At(s, sc.i + 1)>>, !.i = sc.i + 2]
    ELSE [sc EXCEPT !.out = Append(sc.out, ch), !.i = sc.i + 1,
                    !.state = IF ch = q THEN 0 ELSE sc.state]

\* One iteration inside a JS/TS template literal.
InTemplate(s, sc) ==
    LET ch == At(s, sc.i)
        ch2 == At(s, sc.i + 1) IN
    IF ch = "\\"
    THEN IF sc.i + 1 < Len(s)
         THEN [sc EXCEPT !.out = sc.out \o <<ch, ch2>>, !.i = sc.i + 2]
         ELSE [sc EXCEPT !.out = Append(sc.out, ch), !.i = sc.i + 1]
    ELSE IF ch = BACKTICK
    THEN [sc EXCEPT !.out = Append(sc.out, ch), !.i = sc.i + 1, !.state = 0]
    ELSE IF ch = "$" /\ ch2 = "{"
    THEN [sc EXCEPT !.out = sc.out \o <<ch, ch2>>, !.i = sc.i + 2,
                    !.depth = sc.depth + 1]
    ELSE IF ch = "}" /\ sc.depth > 0
    THEN [sc EXCEPT !.out = Append(sc.out, ch), !.i = sc.i + 1,
                    !.depth = sc.depth - 1]
    ELSE [sc EXCEPT !.out = Append(sc.out, ch), !.i = sc.i + 1]

\* Drop with the read index left where it was.
DropNoAdvance(sc, j) ==
    [sc EXCEPT !.comments = sc.comments + 1,
               !.removed = sc.removed + (j - sc.i)]

\* A comment that runs from sc.i up to (excluding) j is dropped and counted.
Drop(sc, j) ==
    [sc EXCEPT !.comments = sc.comments + 1,
               !.removed = sc.removed + (j - sc.i), !.i = j]

\* Copy for a scanner that passes over an ordinary character without
\* appending it.
CopySkips(s, sc) == [sc EXCEPT !.i = sc.i + 1]

\* An ordinary character is copied.
Copy(s, sc) == [sc EXCEPT !.out = Append(sc.out, At(s, sc.i)), !.i = sc.i + 1]

\* A delimiter of length k is copied and the scanner enters state st.
Open(s, sc, k, st) ==
    [sc EXCEPT !.out = sc.out \o Slice(s, sc.i, sc.i + k), !.i = sc.i + k,
               !.state = st]

\* The shebang test of the "#" branch: not (i == 0 and i + 1 < n and src[i+1] == "!")
IsShebang(s, p) == p = 0 /\ At(s, p + 1) = "!"

\* CLikeCode with the test on support_backtick in the single-quote branch
\* inverted.
CLikeCodeQuoteFlagInverted(s, sc, treat_hash_as_line_comment, support_backtick) ==
    LET ch == At(s, sc.i)
        ch2 == At(s, sc.i + 1) IN
    IF ch = "'" /\ support_backtick THEN Open(s, sc, 1, IN_STR_SGL)
    ELSE IF ch = "\"" THEN Open(s, sc, 1, IN_STR_DBL)
    ELSE IF support_backtick /\ ch = BACKTICK
    THEN [Open(s, sc, 1, IN_TEMPLATE) EXCEPT !.depth = 0]
    ELSE IF ch = "/" /\ ch2 = "/" THEN Drop(sc, SkipToEol(s, sc.i + 2))
    ELSE IF ch = "/" /\ ch2 = "*" THEN Drop(sc, BlockEnd(s, sc.i))
    ELSE IF treat_hash_as_line_comment /\ ch = "#" /\ ~IsShebang(s, sc.i)
    THEN Drop(sc, SkipToEol(s, sc.i + 1))
    ELSE Copy(s, sc)

\* One iteration of strip_comments_c_like outside strings and templates.
CLikeCode(s, sc, treat_hash_as_line_comment, support_backtick) ==
    LET ch == At(s, sc.i)
        ch2 == At(s, sc.i + 1) IN
    IF ch = "'" /\ ~support_backtick THEN Open(s, sc, 1, IN_STR_SGL)
    ELSE IF ch = "\"" THEN Open(s, sc, 1, IN_STR_DBL)
    ELSE IF support_backtick /\ ch = BACKTICK
    THEN [Open(s, sc, 1, IN_TEMPLATE) EXCEPT !.depth = 0]
    ELSE IF ch = "/" /\ ch2 = "/" THEN Drop(sc, SkipToEol(s, sc.i + 2))
    ELSE IF ch = "/" /\ ch2 = "*" THEN Drop(sc, BlockEnd(s, sc.i))
    ELSE IF treat_hash_as_line_comment /\ ch = "#" /\ ~IsShebang(s, sc.i)
    THEN Drop(sc, SkipToEol(s, sc.i + 1))
    ELSE Copy(s, sc)

\* One iteration of the main loop of strip_comments_c_like.
CLikeIter(s, sc, treat_hash_as_line_comment, support_backtick) ==
    IF sc.state = IN_STR_SGL THEN InQuote(s, sc, "'")
    ELSE IF sc.state = IN_STR_DBL THEN InQuote(s, sc, "\"")
    ELSE IF sc.state = IN_TEMPLATE THEN InTemplate(s, sc)
    ELSE CLikeCode(s, sc, treat_hash_as_line_comment, support_backtick)

\* The whole of strip_comments_c_like: iterate while i < n.
RECURSIVE CLikeRun(_, _, _, _)
CLikeRun(s, sc, treat_hash_as_line_comment, support_backtick) ==
    IF sc.i < Len(s)
    THEN CLikeRun(s, CLikeIter(s, sc, treat_hash_as_line_comment, support_backtick),
                  treat_hash_as_line_comment, support_backtick)
    ELSE sc

----------------------------------------------------------------------------
\* strip_comments_python

IN_SGL == 1
IN_DBL == 2
IN_TSQ == 3
IN_TDQ == 4

\* ch, ch2, ch3 are all the quote character q
IsTriple(s, p, q) == At(s, p) = q /\ At(s, p + 1) = q /\ At(s, p + 2) = q

\* One iteration inside a triple-quoted string delimited by q q q.
InTripleQuote(s, sc, q) ==
    IF IsTriple(s, sc.i, q) THEN Open(s, sc, 3, 0) ELSE Copy(s, sc)

\* PythonCode with the single-quote tests placed before the triple-quote
\* tests.
PythonCodeSingleFirst(s, sc) ==
    LET ch == At(s, sc.i) IN
    IF ch = "'" THEN Open(s, sc, 1, IN_SGL)
    ELSE IF ch = "\"" THEN Open(s, sc, 1, IN_DBL)
    ELSE IF IsTriple(s, sc.i, "'") THEN Open(s, sc, 3, IN_TSQ)
    ELSE IF IsTriple(s, sc.i, "\"") THEN Open(s, sc, 3, IN_TDQ)
    ELSE IF ch = "#" /\ ~IsShebang(s, sc.i)
    THEN Drop(sc, SkipToEol(s, sc.i + 1))
    ELSE Copy(s, sc)

\* One iteration of strip_comments_python outside strings.
PythonCode(s, sc) ==
    LET ch == At(s, sc.i) IN
    IF IsTriple(s, sc.i, "'") THEN Open(s, sc, 3, IN_TSQ)
    ELSE IF IsTriple(s, sc.i, "\"") THEN Open(s, sc, 3, IN_TDQ)
    ELSE IF ch = "'" THEN Open(s, sc, 1, IN_SGL)
    ELSE IF ch = "\"" THEN Open(s, sc, 1, IN_DBL)
    ELSE IF ch = "#" /\ ~IsShebang(s, sc.i)
    THEN Drop(sc, SkipToEol(s, sc.i + 1))
    ELSE Copy(s, sc)

\* One iteration of the main loop of strip_comments_python.
PythonIter(s, sc) ==
    IF sc.state = IN_SGL THEN InQuote(s, sc, "'")
    ELSE IF sc.state = IN_DBL THEN InQuote(s, sc, "\"")
    ELSE IF sc.state = IN_TSQ THEN InTripleQuote(s, sc, "'")
    ELSE IF sc.state = IN_TDQ THEN InTripleQuote(s, sc, "\"")
    ELSE PythonCode(s, sc)

RECURSIVE PythonRun(_, _)
PythonRun(s, sc) ==
    IF sc.i < Len(s) THEN PythonRun(s, PythonIter(s, sc)) ELSE sc

----------------------------------------------------------------------------
\* strip_comments_sql

IN_BKT == 3

\* InBacktick for a scanner that discards what stands between backticks.
InBacktickDiscards(s, sc) ==
    [sc EXCEPT !.i = sc.i + 1, !.removed = sc.removed + 1,
               !.state = IF At(s, sc.i) = BACKTICK THEN 0 ELSE sc.state]

\* One iteration inside a backtick-quoted identifier: no escapes.
InBacktick(s, sc) ==
    [Copy(s, sc) EXCEPT !.state = IF At(s, sc.i) = BACKTICK THEN 0 ELSE sc.state]

\* One iteration of strip_comments_sql outside strings.
SqlCode(s, sc) ==
    LET ch == At(s, sc.i)
        ch2 == At(s, sc.i + 1) IN
    IF ch = "'" THEN Open(s, sc, 1, IN_SGL)
    ELSE IF ch = "\"" THEN Open(s, sc, 1, IN_DBL)
    ELSE IF ch = BACKTICK THEN Open(s, sc, 1, IN_BKT)
    ELSE IF ch = "/" /\ ch2 = "*" THEN Drop(sc, BlockEnd(s, sc.i))
    ELSE IF ch = "-" /\ ch2 = "-" THEN Drop(sc, SkipToEol(s, sc.i + 2))
    ELSE Copy(s, sc)

\* One iteration of the main loop of strip_comments_sql.
SqlIter(s, sc) ==
    IF sc.state = IN_SGL THEN InQuote(s, sc, "'")
    ELSE IF sc.state = IN_DBL THEN InQuote(s, sc, "\"")
    ELSE IF sc.state = IN_BKT THEN InBacktick(s, sc)
    ELSE SqlCode(s, sc)

RECURSIVE SqlRun(_, _)
SqlRun(s, sc) ==
    IF sc.i < Len(s) THEN SqlRun(s, SqlIter(s, sc)) ELSE sc

----------------------------------------------------------------------------
\* Pattern sweeps: re.sub with a function that counts each match, adds its
\* length to removed_chars and replaces it by "".

\* s[p:p+len(w)] == w
StartsWith(s, p, w) == p + Len(w) <= Len(s) /\ Slice(s, p, p + Len(w)) = w

NoMatch == [start |-> -1, end |-> -1]

\* HtmlMatch for a greedy pattern: the closer is the last "-->".
HtmlMatchGreedy(s, pos) ==
    LET Closers(p) == {q \in (p + 4)..Len(s) : StartsWith(s, q, <<"-", "-", ">">>)}
        Starts == {p \in pos..Len(s) :
                     StartsWith(s, p, <<"<", "!", "-", "-">>) /\ Closers(p) # {}}
        Last(S) == CHOOSE q \in S : \A r \in S : r <= q
    IN  IF Starts = {} THEN NoMatch
        ELSE [start |-> Min(Starts), end |-> Last(Closers(Min(Starts))) + 3]

\* Leftmost match of <!--[\s\S]*?--> at or after pos: the closer is the first
\* "-->" that starts after the four characters of the opener.
HtmlMatch(s, pos) ==
    LET Closers(p) == {q \in (p + 4)..Len(s) : StartsWith(s, q, <<"-", "-", ">">>)}
        Starts == {p \in pos..Len(s) :
                     StartsWith(s, p, <<"<", "!", "-", "-">>) /\ Closers(p) # {}}
    IN  IF Starts = {} THEN NoMatch
        ELSE [start |-> Min(Starts), end |-> Min(Closers(Min(Starts))) + 3]

\* AtLineStart for a pattern whose ^ anchors were left out.
AtAnyPosition(s, p) == TRUE

\* (?m)^ : at the start of the text or right after a "\n"
AtLineStart(s, p) == p = 0 \/ At(s, p - 1) = "\n"

\* [ \t]* from p, greedy
RECURSIVE SkipBlanks(_, _)
SkipBlanks(s, p) == IF At(s, p) \in {" ", "\t"} THEN SkipBlanks(s, p + 1) ELSE p

\* ^[ \t]*word matches at p
LineMarkerAt(s, p, word) == AtLineStart(s, p) /\ StartsWith(s, SkipBlanks(s, p), word)

BEGIN == <<"=", "b", "e", "g", "i", "n">>
END == <<"=", "e", "n", "d">>

\* Leftmost match of (?m)^[ \t]*=begin[\s\S]*?^[ \t]*=end[ \t]*\r?\n? at or
\* after pos.
RubyBlockMatch(s, pos) ==
    LET AfterBegin(p) == SkipBlanks(s, p) + Len(BEGIN)
        Ends(p) == {q \in AfterBegin(p)..Len(s) : LineMarkerAt(s, q, END)}
        Starts == {p \in pos..Len(s) : LineMarkerAt(s, p, BEGIN) /\ Ends(p) # {}}
        p0 == Min(Starts)
        e1 == SkipBlanks(s, SkipBlanks(s, Min(Ends(p0))) + Len(END))
        e2 == IF At(s, e1) = "\r" THEN e1 + 1 ELSE e1
        e3 == IF At(s, e2) = "\n" THEN e2 + 1 ELSE e2
    IN  IF Starts = {} THEN NoMatch ELSE [start |-> p0, end |-> e3]

\* The leftmost match, at or after pos, of the pattern of the given scanner.
Match(scanner, s, pos) ==
    IF scanner = "html" THEN HtmlMatch(s, pos) ELSE RubyBlockMatch(s, pos)

\* pattern.sub(repl, src) and re.sub(pattern, block_repl, src)
RECURSIVE Sub(_, _, _, _)
Sub(scanner, s, pos, acc) ==
    LET m == Match(scanner, s, pos) IN
    IF m = NoMatch
    THEN [acc EXCEPT !.out = acc.out \o Slice(s, pos, Len(s))]
    ELSE Sub(scanner, s, m.end,
             [acc EXCEPT !.out = acc.out \o Slice(s, pos, m.start),
                         !.comments = acc.comments + 1,
                         !.removed = acc.removed + (m.end - m.start)])

\* strip_comments_html
HtmlSweep(s) == Sub("html", s, 0, Scan0)

\* The first half of strip_comments_ruby: out, comments and removed_chars
\* after the =begin ... =end substitution.
RubyBlockSweep(s) == Sub("ruby", s, 0, Scan0)

\* One iteration of the "#" scan of strip_comments_ruby over the swept text.
RubyCode(s, sc) ==
    LET ch == At(s, sc.i) IN
    IF ch = "'" THEN Open(s, sc, 1, IN_SGL)
    ELSE IF ch = "\"" THEN Open(s, sc, 1, IN_DBL)
    ELSE IF ch = "#" THEN Drop(sc, SkipToEol(s, sc.i + 1))
    ELSE Copy(s, sc)

RubyIter(s, sc) ==
    IF sc.state = IN_SGL THEN InQuote(s, sc, "'")
    ELSE IF sc.state = IN_DBL THEN InQuote(s, sc, "\"")
    ELSE RubyCode(s, sc)

RECURSIVE RubyRun(_, _)
RubyRun(s, sc) ==
    IF sc.i < Len(s) THEN RubyRun(s, RubyIter(s, sc)) ELSE sc

----------------------------------------------------------------------------
\* strip_comments_hash_and_semicolon

\* Length of the first line of s with its terminator: "\n", "\r" or "\r\n".
FirstLineLen(s) ==
    LET e == SkipToEol(s, 0) IN
    IF e = Len(s) THEN e
    ELSE IF At(s, e) = "\r" /\ At(s, e + 1) = "\n" THEN e + 2
    ELSE e + 1

\* src.splitlines(True)
RECURSIVE SplitLines(_)
SplitLines(s) ==
    IF s = <<>> THEN <<>>
    ELSE <<Slice(s, 0, FirstLineLen(s))>>
         \o SplitLines(Slice(s, FirstLineLen(s), Len(s)))

\* FindCut with the allow_semicolon test left out: ";" always cuts.
RECURSIVE FindCutAnySemicolon(_, _, _, _)
FindCutAnySemicolon(line, p, st, allow_semicolon) ==
    LET ch == At(line, p)
        n == Len(line) IN
    IF p >= n THEN -1
    ELSE IF st # 0
    THEN IF ch = "\\" /\ p + 1 < n THEN FindCutAnySemicolon(line, p + 2, st, allow_semicolon)
         ELSE IF ch = (IF st = IN_SGL THEN "'" ELSE "\"")
         THEN FindCutAnySemicolon(line, p + 1, 0, allow_semicolon)
         ELSE FindCutAnySemicolon(line, p + 1, st, allow_semicolon)
    ELSE IF ch = "'" THEN FindCutAnySemicolon(line, p + 1, IN_SGL, allow_semicolon)
    ELSE IF ch = "\"" THEN FindCutAnySemicolon(line, p + 1, IN_DBL, allow_semicolon)
    ELSE IF ch = "#" THEN p
    ELSE IF ch = ";" THEN p
    ELSE FindCutAnySemicolon(line, p + 1, st, allow_semicolon)

\* The inner loop over one line: the index of the first "#" (or ";" when
\* allowed) met outside quotes, or -1 for None.
RECURSIVE FindCut(_, _, _, _)
FindCut(line, p, st, allow_semicolon) ==
    LET ch == At(line, p)
        n == Len(line) IN
    IF p >= n THEN -1
    ELSE IF st # 0
    THEN IF ch = "\\" /\ p + 1 < n THEN FindCut(line, p + 2, st, allow_semicolon)
         ELSE IF ch = (IF st = IN_SGL THEN "'" ELSE "\"")
         THEN FindCut(line, p + 1, 0, allow_semicolon)
         ELSE FindCut(line, p + 1, st, allow_semicolon)
    ELSE IF ch = "'" THEN FindCut(line, p + 1, IN_SGL, allow_semicolon)
    ELSE IF ch = "\"" THEN FindCut(line, p + 1, IN_DBL, allow_semicolon)
    ELSE IF ch = "#" THEN p
    ELSE IF allow_semicolon /\ ch = ";" THEN p
    ELSE FindCut(line, p + 1, st, allow_semicolon)

\* str.rstrip()
RECURSIVE RStrip(_)
RStrip(s) ==
    IF s # <<>> /\ s[Len(s)] \in WHITESPACE THEN RStrip(SubSeq(s, 1, Len(s) - 1))
    ELSE s

\* KeptLine for a scanner that ends every cut line with "\n".
KeptLineAlwaysNewline(line, cut) == RStrip(Slice(line, 0, cut)) \o <<"\n">>

\* line[:cut].rstrip() + ("\n" if line.endswith("\n") else "")
KeptLine(line, cut) ==
    RStrip(Slice(line, 0, cut))
    \o (IF line # <<>> /\ line[Len(line)] = "\n" THEN <<"\n">> ELSE <<>>)

\* The body of the loop over lines, for one line.
LineIter(line, sc, allow_semicolon) ==
    LET cut == FindCut(line, 0, 0, allow_semicolon) IN
    IF cut # -1
    THEN [sc EXCEPT !.comments = sc.comments + 1,
                    !.removed = sc.removed + (Len(line) - cut),
                    !.out = sc.out \o KeptLine(line, cut), !.i = sc.i + 1]
    ELSE [sc EXCEPT !.out = sc.out \o line, !.i = sc.i + 1]

\* The loop over the lines from number sc.i on (sc.i counts lines here).
RECURSIVE LinesRun(_, _, _)
LinesRun(lines, sc, allow_semicolon) ==
    IF sc.i < Len(lines)
    THEN LinesRun(lines, LineIter(lines[sc.i + 1], sc, allow_semicolon), allow_semicolon)
    ELSE sc

----------------------------------------------------------------------------
\* The dispatcher

CLIKE_LANGS == {"c", "cpp", "csharp", "java", "css", "rust", "go", "jsonc", "php"}

LowerKeepsCase(l) == l

\* str.lower() on the identifiers the model draws
Lower(l) == IF l = "SQL" THEN "sql" ELSE l

\* The scanner strip_comments selects for an identifier, and its flags.
Profile(l) ==
    LET k == Lower(l)
        P(sn, h, b, sm) == [scanner |-> sn, treat_hash_as_line_comment |-> h,
                            support_backtick |-> b, allow_semicolon |-> sm]
    IN  IF k \in CLIKE_LANGS THEN P("c_like", k = "php", FALSE, FALSE)
        ELSE IF k \in {"js", "ts"} THEN P("c_like", FALSE, TRUE, FALSE)
        ELSE IF k = "python" THEN P("python", FALSE, FALSE, FALSE)
        ELSE IF k = "sql" THEN P("sql", FALSE, FALSE, FALSE)
        ELSE IF k \in {"html", "xml"} THEN P("html", FALSE, FALSE, FALSE)
        ELSE IF k = "ruby" THEN P("ruby", FALSE, FALSE, FALSE)
        ELSE IF k = "bash" THEN P("c_like", TRUE, FALSE, FALSE)
        ELSE IF k = "yaml" THEN P("lines", FALSE, FALSE, FALSE)
        ELSE IF k \in {"toml", "ini"} THEN P("lines", FALSE, FALSE, TRUE)
        ELSE P("c_like", FALSE, FALSE, FALSE)

\* Result(text, comments_found, comments_removed_chars)
Result(sc) == [text |-> sc.out, comments_found |-> sc.comments,
               comments_removed_chars |-> sc.removed]

\* strip_comments(src, lang) as a function of its arguments
strip_comments(s, l) ==
    LET p == Profile(l) IN
    IF p.scanner = "c_like"
    THEN Result(CLikeRun(s, Scan0, p.treat_hash_as_line_comment, p.support_backtick))
    ELSE IF p.scanner = "python" THEN Result(PythonRun(s, Scan0))
    ELSE IF p.scanner = "sql" THEN Result(SqlRun(s, Scan0))
    ELSE IF p.scanner = "html" THEN Result(HtmlSweep(s))
    ELSE IF p.scanner = "ruby"
    THEN LET b == RubyBlockSweep(s) IN
         Result(RubyRun(b.out, [b EXCEPT !.out = <<>>]))
    ELSE Result(LinesRun(SplitLines(s), Scan0, p.allow_semicolon))

----------------------------------------------------------------------------
\* Inputs: every concatenation of at most MaxLen fragments of the language.
\* A fragment is a character or a short run of characters of the language's
\* lexical syntax.

\* The identifiers the inputs are drawn for: one or more for each branch of
\* the dispatcher.
\* "SQL" is an identifier that differs from a listed one by case only, "zig"
\* one that no branch lists.
Langs == {"c", "php", "js", "bash", "python", "sql", "html", "ruby", "yaml", "ini",
          "toml", "SQL", "zig"}

Fragments(l) ==
    CASE l = "c"      -> {<<"\"">>, <<"'">>, <<"\\">>, <<"\\", "\"">>, <<"/">>, <<"*">>,
                          <<"/", "/">>, <<"\n">>, <<"x">>}
      [] l = "php"    -> {<<"\"">>, <<"'">>, <<"#">>, <<"!">>, <<"/">>, <<"\n">>}
      [] l = "js"     -> {<<BACKTICK>>, <<"$", "{">>, <<"}">>, <<"/", "/">>, <<"'">>,
                          <<"\"">>, <<"\\">>, <<"\n">>}
      [] l = "bash"   -> {<<"#", "!">>, <<"#">>, <<"/">>, <<"\n">>, <<"x">>, <<"\"">>}
      [] l = "python" -> {<<"'">>, <<"\"">>, <<"'", "'", "'">>, <<"\"", "\"", "\"">>,
                          <<"#">>, <<"!">>, <<"\n">>, <<"\\">>}
      [] l \in {"sql", "SQL"} -> {<<"-">>, <<"/", "*">>, <<"*", "/">>, <<"/">>, <<"'">>,
                          <<"\n">>, <<"\\">>, <<BACKTICK>>}
      [] l = "html"   -> {<<"<", "!", "-", "-">>, <<"-", "-", ">">>, <<"<", "!", "-">>,
                          <<"-">>, <<"x">>, <<"\n">>, <<"\"">>}
      [] l = "ruby"   -> {BEGIN, END, <<"\n">>, <<" ">>, <<"\t">>, <<"x">>,
                          <<"x", "\n">>, <<"#">>, <<"'">>}
      [] l = "zig"    -> {<<"\"">>, <<"'">>, <<"#">>, <<BACKTICK>>, <<"/", "/">>,
                          <<"/", "*">>, <<"\n">>}
      [] l = "toml"   -> {<<"#">>, <<";">>, <<"'">>, <<" ">>, <<"\n">>, <<"k">>}
      [] OTHER        -> {<<"#">>, <<";">>, <<"\"">>, <<"\"", "#", "\"">>, <<"\\">>,
                          <<" ">>, <<"\r">>, <<"\n">>, <<"k">>}

RECURSIVE Concat(_)
Concat(fs) == IF fs = <<>> THEN <<>> ELSE Head(fs) \o Concat(Tail(fs))

Inputs(l) ==
    {Concat(fs) : fs \in UNION {[1..k -> Fragments(l)] : k \in 0..MaxLen}}

----------------------------------------------------------------------------
\* The state machine

Cur == [i |-> i, out |-> out, state |-> state, depth |-> template_brace_depth,
        comments |-> comments, removed |-> removed_chars]

Becomes(sc) ==
    /\ i' = sc.i
    /\ out' = sc.out
    /\ state' = sc.state
    /\ template_brace_depth' = sc.depth
    /\ comments' = sc.comments
    /\ removed_chars' = sc.removed

Init ==
    /\ lang \in Langs
    /\ src \in Inputs(lang)
    /\ pc = "start"
    /\ text = <<>>
    /\ i = 0
    /\ out = <<>>
    /\ state = 0
    /\ template_brace_depth = 0
    /\ comments = 0
    /\ removed_chars = 0

\* strip_comments is called: the scanner is chosen and its locals initialised.
Dispatch ==
    /\ pc = "start"
    /\ pc' = Profile(lang).scanner
    /\ text' = src
    /\ Becomes(Scan0)
    /\ UNCHANGED <<lang, src>>

CLikeStep ==
    /\ pc = "c_like"
    /\ i < Len(text)
    /\ Becomes(CLikeIter(text, Cur, Profile(lang).treat_hash_as_line_comment,
                         Profile(lang).support_backtick))
    /\ UNCHANGED <<lang, src, pc, text>>

PythonStep ==
    /\ pc = "python"
    /\ i < Len(text)
    /\ Becomes(PythonIter(text, Cur))
    /\ UNCHANGED <<lang, src, pc, text>>

SqlStep ==
    /\ pc = "sql"
    /\ i < Len(text)
    /\ Becomes(SqlIter(text, Cur))
    /\ UNCHANGED <<lang, src, pc, text>>

\* strip_comments_html is one substitution and a return.
HtmlSub ==
    /\ pc = "html"
    /\ Becomes(HtmlSweep(src))
    /\ pc' = "done"
    /\ UNCHANGED <<lang, src, text>>

\* The =begin ... =end substitution; the "#" scan then starts on its output.
RubyBlockSub ==
    /\ pc = "ruby"
    /\ LET b == RubyBlockSweep(src) IN
       /\ text' = b.out
       /\ Becomes([b EXCEPT !.out = <<>>])
    /\ pc' = "ruby_scan"
    /\ UNCHANGED <<lang, src>>

RubyStep ==
    /\ pc = "ruby_scan"
    /\ i < Len(text)
    /\ Becomes(RubyIter(text, Cur))
    /\ UNCHANGED <<lang, src, pc, text>>

LineStep ==
    /\ pc = "lines"
    /\ i < Len(SplitLines(text))
    /\ Becomes(LineIter(SplitLines(text)[i + 1], Cur, Profile(lang).allow_semicolon))
    /\ UNCHANGED <<lang, src, pc, text>>

\* The loop condition fails and the scanner returns its Result.
Return ==
    /\ \/ pc \in {"c_like", "python", "sql", "ruby_scan"} /\ i >= Len(text)
       \/ pc = "lines" /\ i >= Len(SplitLines(text))
    /\ pc' = "done"
    /\ UNCHANGED <<lang, src, text, i, out, state, template_brace_depth,
                   comments, removed_chars>>

Next ==
    \/ Dispatch
    \/ CLikeStep
    \/ PythonStep
    \/ SqlStep
    \/ HtmlSub
    \/ RubyBlockSub
    \/ RubyStep
    \/ LineStep
    \/ Return

Spec == Init /\ [][Next]_vars

\* The Result the call has returned.
Returned == [text |-> out, comments_found |-> comments,
             comments_removed_chars |-> removed_chars]

TypeOK ==
    /\ pc \in {"start", "c_like", "python", "sql", "html", "ruby", "ruby_scan",
               "lines", "done"}
    /\ i \in 0..(Len(src) + 1)
    /\ state \in 0..4
    /\ comments \in Nat
    /\ removed_chars \in Nat
    /\ pc = "done" => Returned = strip_comments(src, lang)

----------------------------------------------------------------------------
\* Literals of the input, defined on the text alone.

\* The number of backslashes that immediately precede position p, not
\* counting any at or before position a.
RECURSIVE BackslashRun(_, _, _)
BackslashRun(s, a, p) ==
    IF p - 1 > a /\ At(s, p - 1) = "\\" THEN 1 + BackslashRun(s, a, p - 1) ELSE 0

\* The positions after the quote opened at a that hold the same quote
\* character unescaped.
Closers(s, a) ==
    {b \in (a + 1)..(Len(s) - 1) : At(s, b) = At(s, a) /\ BackslashRun(s, a, b) % 2 = 0}

\* The scanner that is running, continued from sc until its read index has
\* passed position stop (or the text is exhausted).
RECURSIVE RunPast(_, _, _, _, _)
RunPast(scanner, l, s, sc, stop) ==
    IF sc.i < Len(s) /\ sc.i <= stop
    THEN RunPast(scanner, l, s,
                 CASE scanner = "c_like" ->
                          CLikeIter(s, sc, Profile(l).treat_hash_as_line_comment,
                                    Profile(l).support_backtick)
                   [] scanner = "python" -> PythonIter(s, sc)
                   [] scanner = "sql" -> SqlIter(s, sc)
                   [] scanner = "ruby_scan" -> RubyIter(s, sc),
                 stop)
    ELSE sc

\* From the current scanner state, the literal text[a..b] that opens at the
\* read index is copied whole and nothing is counted.
LiteralCopied(a, b) ==
    LET sc == RunPast(pc, lang, text, Cur, b) IN
    /\ sc.i = b + 1
    /\ sc.out = out \o Slice(text, a, b + 1)
    /\ sc.comments = comments
    /\ sc.removed = removed_chars
    /\ sc.state = 0

\* C1: in the plain C-like scan (no backtick support), a single- or
\* double-quoted literal that opens in code and has an unescaped closing
\* delimiter is copied unchanged, comment markers included, and adds nothing
\* to the comment count.
C1_LiteralPreserved ==
    (/\ pc = "c_like"
     /\ ~Profile(lang).support_backtick
     /\ state = 0
     /\ At(text, i) \in {"'", "\""}
     /\ Closers(text, i) # {})
    => LiteralCopied(i, Min(Closers(text, i)))

\* x = "//"; // c  in miniature: the quoted marker stays, the comment goes.
C1_Witness ==
    /\ pc = "done"
    /\ lang = "c"
    /\ src = <<"\"", "/", "/", "\"", "/", "/">>
    /\ out = <<"\"", "/", "/", "\"">>
    /\ comments = 1

\* C2: in the JS/TS scan, a single-quoted, double-quoted or backtick literal
\* that opens in code and has an unescaped closing delimiter (and, for a
\* template, no interpolation trigger inside) is copied unchanged and adds
\* nothing to the comment count.
C2_JsLiteralPreserved ==
    (/\ pc = "c_like"
     /\ Profile(lang).support_backtick
     /\ state = 0
     /\ At(text, i) \in {"'", "\"", BACKTICK}
     /\ Closers(text, i) # {}
     /\ \A k \in i..Min(Closers(text, i)) : ~(At(text, k) = "$" /\ At(text, k + 1) = "{"))
    => LiteralCopied(i, Min(Closers(text, i)))

\* The four character scanners that track single- and double-quoted strings.
QuoteScanners == {"c_like", "python", "sql", "ruby_scan"}

\* C3: inside a single- or double-quoted string a backslash that has a
\* successor is copied together with that successor, whatever it is, and the
\* string stays open; any other character is copied alone and closes the
\* string exactly when it is the string's own quote.  Nothing is counted.
C3_EscapeCopiesNext ==
    [][(pc \in QuoteScanners /\ pc' = pc /\ state \in {IN_SGL, IN_DBL}) =>
         LET ch == At(text, i)
             q == IF state = IN_SGL THEN "'" ELSE "\""
         IN  /\ IF ch = "\\" /\ i + 1 < Len(text)
                THEN /\ i' = i + 2
                     /\ out' = out \o <<"\\", At(text, i + 1)>>
                     /\ state' = state
                ELSE /\ i' = i + 1
                     /\ out' = Append(out, ch)
                     /\ state' = IF ch = q THEN 0 ELSE state
             /\ comments' = comments
             /\ removed_chars' = removed_chars]_vars

\* "\"" // : the escaped quote did not close the string, the next one did,
\* and the comment after it was removed.
C3_Witness ==
    /\ pc = "done"
    /\ lang = "c"
    /\ src = <<"\"", "\\", "\"", "\"", "/", "/">>
    /\ out = <<"\"", "\\", "\"", "\"">>
    /\ comments = 1

\* The first position at or after p where the three-character closer q q q
\* starts.
TripleClosers(s, p, q) == {k \in p..(Len(s) - 3) : IsTriple(s, k, q)}

\* C4: in the Python scan, three identical quote characters met in code open
\* a triple-quoted literal, and when the same three characters occur again
\* after the opener everything up to and including their first occurrence is
\* copied and nothing is counted.
C4_TripleQuotePriority ==
    \A q \in {"'", "\""} :
      (pc = "python" /\ state = 0 /\ IsTriple(text, i, q)) =>
        /\ PythonIter(text, Cur).state = (IF q = "'" THEN IN_TSQ ELSE IN_TDQ)
        /\ PythonIter(text, Cur).i = i + 3
        /\ TripleClosers(text, i + 3, q) # {} =>
             LiteralCopied(i, Min(TripleClosers(text, i + 3, q)) + 2)

\* '''#''' comes back unchanged with no comment found.
C4_Witness ==
    /\ pc = "done"
    /\ lang = "python"
    /\ src = <<"'", "'", "'", "#", "'", "'", "'">>
    /\ out = src
    /\ comments = 0

\* C5: for Bash and Python, when the input starts with #! the first line is
\* copied verbatim, up to its line terminator, and nothing in it is counted.
C5_ShebangLineVerbatim ==
    (/\ pc \in {"c_like", "python", "done"}
     /\ lang \in {"bash", "python"}
     /\ StartsWith(src, 0, <<"#", "!">>))
    => LET e == SkipToEol(src, 0) IN
       /\ i <= e => (out = Slice(src, 0, i) /\ comments = 0)
       /\ i >= e => Slice(out, 0, e) = Slice(src, 0, e)

\* C6: scanning the cleaned text again changes nothing and finds no comment.
C6_Idempotent ==
    pc = "done" =>
      LET r2 == strip_comments(out, lang) IN
      r2.text = out /\ r2.comments_found = 0

\* A block-comment closer starts at position k.
BlockCloserAt(s, k) == At(s, k) = "*" /\ At(s, k + 1) = "/"

\* C7: in the C-like and SQL scanners a /* met in code with no */ starting at
\* least two characters after it is dropped together with everything up to
\* the end of the input, and is counted once.
C7_UnterminatedBlock ==
    [][(/\ pc \in {"c_like", "sql"}
        /\ state = 0
        /\ At(text, i) = "/"
        /\ At(text, i + 1) = "*"
        /\ \A k \in (i + 2)..Len(text) : ~BlockCloserAt(text, k))
       => (/\ out' = out
           /\ i' >= Len(text)
           /\ comments' = comments + 1
           /\ state' = 0)]_vars

\* x/*/ : the closer may not reuse the opener's star.
C7_Witness ==
    /\ pc = "done"
    /\ lang = "c"
    /\ src = <<"x", "/", "*", "/">>
    /\ out = <<"x">>
    /\ comments = 1

\* The start of the line that position k lies on.
LineStartOf(s, k) == CHOOSE p \in 0..k :
                        /\ p = 0 \/ At(s, p - 1) = "\n"
                        /\ \A j \in p..(k - 1) : At(s, j) # "\n"

\* The positions where word stands with only spaces and tabs before it on
\* its line.
MarkerLines(s, word) ==
    {k \in 0..Len(s) : /\ StartsWith(s, k, word)
                       /\ \A j \in LineStartOf(s, k)..(k - 1) : At(s, j) \in {" ", "\t"}}

\* C8: in the Ruby scan, when no =begin stands at the head of a line the
\* block substitution removes nothing; otherwise the text from the line of
\* the first such =begin through the first =end at the head of a later line
\* is removed and counted as one comment.
C8_RubyBlock ==
    pc = "ruby_scan" =>
      LET B == MarkerLines(src, BEGIN) IN
      IF B = {}
      THEN text = src /\ (i = 0 => comments = 0 /\ removed_chars = 0)
      ELSE LET k1 == Min(B)
               p1 == LineStartOf(src, k1)
               E == {k \in MarkerLines(src, END) : LineStartOf(src, k) > k1}
               k2 == Min(E)
           IN  E # {} =>
                 /\ Slice(text, 0, p1) = Slice(src, 0, p1)
                 /\ Len(text) <= Len(src) - (k2 + Len(END) - p1)
                 /\ i = 0 => comments >= 1
                 /\ (\A k \in B : k < k2) =>
                      \E r \in (k2 + Len(END))..Len(src) :
                        /\ \A j \in (k2 + Len(END))..(r - 1) : At(src, j) \in WHITESPACE
                        /\ text = Slice(src, 0, p1) \o Slice(src, r, Len(src))
                        /\ i = 0 => comments = 1 /\ removed_chars = r - p1

\* =begin, a line, =end : all of it goes, as one comment.
C8_Witness ==
    /\ pc = "done"
    /\ lang = "ruby"
    /\ src = BEGIN \o <<"\n", "x", "\n">> \o END
    /\ out = <<>>
    /\ comments = 1

\* The quote state in which the line cursor arrives at position p when
\* comment markers are read as ordinary characters: 0 outside quotes, IN_SGL
\* or IN_DBL inside, -1 when p is the character a backslash escapes.
RECURSIVE QState(_, _)
QState(line, p) ==
    IF p = 0 THEN 0
    ELSE LET prev == QState(line, p - 1)
             c == At(line, p - 1)
         IN  IF prev = -1 THEN QState(line, p - 2)
             ELSE IF prev = 0
             THEN (IF c = "'" THEN IN_SGL ELSE IF c = "\"" THEN IN_DBL ELSE 0)
             ELSE IF c = "\\" /\ p < Len(line) THEN -1
             ELSE IF c = (IF prev = IN_SGL THEN "'" ELSE "\"") THEN 0
             ELSE prev

\* The comment markers of a line-truncation language.
LineMarkers(l) == IF l \in {"toml", "ini"} THEN {"#", ";"} ELSE {"#"}

\* The longest prefix of s that does not end in whitespace.
Trimmed(s) ==
    LET m == CHOOSE k \in 0..Len(s) :
                 /\ k = 0 \/ s[k] \notin WHITESPACE
                 /\ \A j \in (k + 1)..Len(s) : s[j] \in WHITESPACE
    IN  SubSeq(s, 1, m)

\* C9: the line scanner cuts each line at its first marker outside quotes
\* (# always, ; for INI/TOML only), keeps what precedes the cut without its
\* trailing whitespace, and counts one comment for the line; a line with no
\* such marker is kept as it is.
C9_LineTruncation ==
    [][(pc = "lines" /\ pc' = "lines") =>
         LET line == SplitLines(text)[i + 1]
             cuts == {p \in 0..(Len(line) - 1) :
                        At(line, p) \in LineMarkers(lang) /\ QState(line, p) = 0}
             kept == Trimmed(Slice(line, 0, Min(cuts)))
         IN  IF cuts = {}
             THEN out' = out \o line /\ comments' = comments
             ELSE /\ comments' = comments + 1
                  /\ \E nl \in {<<>>, <<"\n">>} : out' = out \o kept \o nl]_vars

\* k"#" ; : the quoted # stays, the semicolon cuts, the blank is trimmed.
C9_Witness ==
    /\ pc = "done"
    /\ lang = "ini"
    /\ src = <<"k", "\"", "#", "\"", " ", ";">>
    /\ out = <<"k", "\"", "#", "\"">>
    /\ comments = 1

\* C10: for Bash an input without # comes back unchanged, with nothing
\* counted and nothing removed.
C10_BashOnlyHash ==
    (pc = "done" /\ lang = "bash" /\ \A k \in 1..Len(src) : src[k] # "#")
    => (out = src /\ comments = 0 /\ removed_chars = 0)

\* The positions at or after p where the quote state st of the running
\* scanner would close, p being a position the scanner reads in that state:
\* the state's quote character outside a backslash escape; for a Python
\* triple-quoted string the three-character closer; for an SQL backtick
\* identifier, which has no escapes, any backtick.
ClosersFrom(scanner, s, p, st) ==
    LET Unescaped(q) ==
            {b \in p..(Len(s) - 1) : At(s, b) = q /\ BackslashRun(s, p - 1, b) % 2 = 0}
    IN  IF st = IN_SGL THEN Unescaped("'")
        ELSE IF st = IN_DBL THEN Unescaped("\"")
        ELSE IF scanner = "c_like" THEN Unescaped(BACKTICK)
        ELSE IF scanner = "sql" THEN {b \in p..(Len(s) - 1) : At(s, b) = BACKTICK}
        ELSE IF st = IN_TSQ THEN {b \in p..(Len(s) - 1) : IsTriple(s, b, "'")}
        ELSE {b \in p..(Len(s) - 1) : IsTriple(s, b, "\"")}

\* C11: in the C-like, Python, SQL and Ruby scanners, when the scanner is in
\* a quote state and no unescaped closer of that state follows, the rest of
\* the input, line terminators and comment markers included, is copied
\* verbatim, nothing more is counted, and the scan ends in that quote state.
C11_UnterminatedLiteral ==
    (/\ pc \in QuoteScanners
     /\ state # 0
     /\ i < Len(text)
     /\ ClosersFrom(pc, text, i, state) = {})
    => LET sc == RunPast(pc, lang, text, Cur, Len(text)) IN
       /\ sc.i = Len(text)
       /\ sc.out = out \o Slice(text, i, Len(text))
       /\ sc.comments = comments
       /\ sc.removed = removed_chars
       /\ sc.state = state

\* An open double quote, a newline and // : all kept, and the scan ends
\* inside the string.
C11_Witness ==
    /\ pc = "done"
    /\ lang = "c"
    /\ src = <<"\"", "\n", "/", "/">>
    /\ out = src
    /\ comments = 0
    /\ state = IN_STR_DBL

\* The line terminators of s, in order.
Eols(s) == SelectSeq(s, LAMBDA c : c \in EOL)

\* The step about to be taken removes a /* block comment.
IsBlockCommentStep ==
    pc \in {"c_like", "sql"} /\ state = 0 /\ At(text, i) = "/" /\ At(text, i + 1) = "*"

\* C12: a step that is not the removal of a block comment passes every line
\* terminator it consumes to the output, unchanged and in order: a line
\* comment is dropped up to but excluding its terminator, and "\r\n" stays
\* "\r\n".  This is stated for the character scanners and the line scanner.
C12_TerminatorsKept ==
    [][/\ (pc \in QuoteScanners /\ pc' = pc) =>
            \/ IsBlockCommentStep
            \/ Eols(out') = Eols(out) \o Eols(Slice(text, i, i'))
       /\ (pc = "lines" /\ pc' = pc) =>
            Eols(out') = Eols(out) \o Eols(SplitLines(text)[i + 1])]_vars

\* The number of items the running loop has to read.
LoopLength == IF pc = "lines" THEN Len(SplitLines(text)) ELSE Len(text)

\* Some step of the call can be taken: the dispatcher and the two
\* substitutions have no precondition, and a loop either iterates or returns.
CanStep ==
    \/ pc \in {"start", "html", "ruby"}
    \/ /\ pc \in QuoteScanners \cup {"lines"}
       /\ (i < LoopLength \/ i >= LoopLength)

\* C13: strip_comments never fails and always returns: the counts are never
\* negative; until the Result is returned some step is possible; every loop
\* iteration starts with the read index below the length of what the loop
\* reads, which is at most the length of the input, and ends with the index
\* strictly greater; every other step leaves the loop or enters it at index
\* 0.  So at most len(src) iterations are taken before the return.
C13_NeverFailsAndTerminates ==
    /\ [](comments >= 0 /\ removed_chars >= 0 /\ (pc # "done" => CanStep))
    /\ [][IF pc' = pc
          THEN i < LoopLength /\ LoopLength <= Len(src) /\ i' > i /\ text' = text
          ELSE pc' = "done" \/ (i' = 0 /\ pc # "done")]_vars

\* /*x : the read index ends one past the end of the text and the scanner
\* still returns.
C13_Witness ==
    /\ pc = "done"
    /\ lang = "c"
    /\ src = <<"/", "*", "x">>
    /\ i = Len(src) + 1
    /\ comments = 1

\* The identifiers the dispatcher lists, in lower case.
KnownLangs == CLIKE_LANGS \cup {"js", "ts", "python", "sql", "html", "xml", "ruby",
                                "bash", "yaml", "toml", "ini"}

\* C14: the dispatcher ignores the case of the identifier ("SQL" returns what
\* "sql" returns for the same input), and an identifier that is not listed
\* returns what the C-like scanner returns with "#" comments and backtick
\* templates both off.
C14_DispatcherFallback ==
    pc = "done" =>
      /\ lang = "SQL" =>
           /\ Returned = strip_comments(src, "sql")
           /\ Returned = Result(SqlRun(src, Scan0))
      /\ lang \notin KnownLangs /\ lang # "SQL" =>
           Returned = Result(CLikeRun(src, Scan0, FALSE, FALSE))

\* "SQL": the "--" comment of SQL is removed, which the C-like scanner keeps.
C14_Witness ==
    /\ pc = "done" /\ lang = "SQL" /\ src = <<"-", "-", "'">>
    /\ out = <<>> /\ comments = 1

\* "zig": "#" and a backtick are kept, "//" is removed.
C14_WitnessUnknown ==
    /\ pc = "done" /\ lang = "zig" /\ src = <<"#", BACKTICK, "/", "/">>
    /\ out = <<"#", BACKTICK>> /\ comments = 1

\* C15: in the JS/TS scan of a template literal "${" is copied and adds one to
\* the interpolation depth, and while the depth is above zero a "//" or "/*"
\* comment is treated as in code: it is counted and nothing of it reaches the
\* output.
C15_InterpolationComments ==
    [][(pc = "c_like" /\ pc' = pc /\ state = IN_TEMPLATE) =>
         /\ (At(text, i) = "$" /\ At(text, i + 1) = "{") =>
              /\ out' = out \o <<"$", "{">>
              /\ template_brace_depth' = template_brace_depth + 1
         /\ (/\ template_brace_depth > 0
             /\ At(text, i) = "/"
             /\ At(text, i + 1) \in {"/", "*"}) =>
              /\ out' = out
              /\ comments' = comments + 1]_vars

\* The positions of the "<!--" openers of s.
HtmlOpeners(s) == {p \in 0..Len(s) : StartsWith(s, p, <<"<", "!", "-", "-">>)}

\* C16: in the two sweeps, when the first block-comment opener of the input
\* has no closer after it, what the sweep leaves is the input up to that
\* opener, and exactly one comment is counted: for HTML/XML the first "<!--"
\* with no "-->" after it, for Ruby the first line-head =begin with no
\* line-head =end on a later line.
C16_UnterminatedSweep ==
    /\ (pc = "done" /\ Profile(lang).scanner = "html" /\ HtmlOpeners(src) # {}) =>
         LET p == Min(HtmlOpeners(src)) IN
         (\A q \in (p + 4)..Len(src) : ~StartsWith(src, q, <<"-", "-", ">">>)) =>
           /\ out = Slice(src, 0, p)
           /\ comments = 1
    /\ (pc = "ruby_scan" /\ i = 0 /\ MarkerLines(src, BEGIN) # {}) =>
         LET k1 == Min(MarkerLines(src, BEGIN))
             p1 == LineStartOf(src, k1)
         IN  (\A k \in MarkerLines(src, END) : LineStartOf(src, k) <= k1) =>
               /\ text = Slice(src, 0, p1)
               /\ comments = 1

\* A left-to-right sweep of s from position p, one position at a time: at a
\* "<!--" the span up to and including the first "-->" after it is dropped,
\* counted once and its length added; any other character is kept.
RECURSIVE SweepFrom(_, _, _)
SweepFrom(s, p, acc) ==
    IF p >= Len(s) THEN acc
    ELSE LET ends == {q \in (p + 4)..Len(s) : StartsWith(s, q, <<"-", "-", ">">>)}
         IN  IF StartsWith(s, p, <<"<", "!", "-", "-">>) /\ ends # {}
             THEN LET e == (CHOOSE q \in ends : \A r \in ends : q <= r) + 3 IN
                  SweepFrom(s, e, [acc EXCEPT !.comments = @ + 1,
                                              !.removed = @ + (e - p)])
             ELSE SweepFrom(s, p + 1, [acc EXCEPT !.out = Append(@, s[p + 1])])

\* C17: for HTML/XML input in which every "<!--" has a "-->" after it, the
\* returned text, comment count and removed-character count are those of the
\* left-to-right sweep that pairs each "<!--" with the first "-->" after it,
\* whatever stands around it (quotes, line ends), counts each span once and
\* adds up the span lengths.
C17_HtmlSweep ==
    (/\ pc = "done" /\ Profile(lang).scanner = "html"
     /\ \A p \in HtmlOpeners(src) :
          \E q \in (p + 4)..Len(src) : StartsWith(src, q, <<"-", "-", ">">>))
    => LET r == SweepFrom(src, 0, [out |-> <<>>, comments |-> 0, removed |-> 0]) IN
       /\ out = r.out
       /\ comments = r.comments
       /\ removed_chars = r.removed
       /\ Len(out) + removed_chars = Len(src)

\* <!-- newline --> --> : the first closer ends the comment, the second stays.
C17_Witness ==
    /\ pc = "done" /\ lang = "html"
    /\ src = <<"<", "!", "-", "-", "\n", "-", "-", ">", "-", "-", ">">>
    /\ out = <<"-", "-", ">">> /\ comments = 1 /\ removed_chars = 8

\* "<!---->" : a comment between quotes is removed all the same.
C17_WitnessQuoted ==
    /\ pc = "done" /\ lang = "html"
    /\ src = <<"\"", "<", "!", "-", "-", "-", "-", ">", "\"">>
    /\ out = <<"\"", "\"">> /\ comments = 1 /\ removed_chars = 7

\* C18: in the C-like, Python and SQL scanners the mode decides what a loop
\* iteration does with the characters it consumes.  In a quote or template
\* mode they are all appended to the output and neither count changes.  In
\* code mode either one comment is counted and the output is left as it was
\* (the characters of a line-comment tail or of a block comment never reach
\* it), or nothing is counted and they are all appended.
C18_ModeDeterminesOutput ==
    [][(pc \in {"c_like", "python", "sql"} /\ pc' = pc) =>
         LET copied == /\ i' <= Len(text)
                       /\ out' = out \o Slice(text, i, i')
                       /\ comments' = comments
                       /\ removed_chars' = removed_chars
             dropped == /\ out' = out
                        /\ comments' = comments + 1
                        /\ removed_chars' > removed_chars
         IN  /\ state # 0 => copied
             /\ state = 0 => (copied \/ dropped)
             /\ (state = 0 /\ At(text, i) = "/" /\ At(text, i + 1) = "*") => dropped]_vars

\* // newline "// : one comment dropped in code mode, then the same two
\* characters copied inside the string.
C18_Witness ==
    /\ pc = "done" /\ lang = "c"
    /\ src = <<"/", "/", "\n", "\"", "/", "/">>
    /\ out = <<"\n", "\"", "/", "/">>
    /\ comments = 1 /\ removed_chars = 2 /\ state = IN_STR_DBL

\* C19: when the C-like, Python or SQL scanner returns, the characters of the
\* returned text and the removed characters add up to the characters of the
\* input, also when the input ends inside a block comment.
C19_CharacterAccounting ==
    (pc = "done" /\ Profile(lang).scanner \in {"c_like", "python", "sql"}) =>
      Len(out) + removed_chars = Len(src)

\* a can be obtained from b by deleting characters.
RECURSIVE IsSubseq(_, _)
IsSubseq(a, b) ==
    IF a = <<>> THEN TRUE
    ELSE IF b = <<>> THEN FALSE
    ELSE IF Head(a) = Head(b) THEN IsSubseq(Tail(a), Tail(b))
    ELSE IsSubseq(a, Tail(b))

\* What the running loop has consumed so far: the first i characters of the
\* scanned text, or the first i lines.
Consumed ==
    IF pc = "lines" THEN Concat(SubSeq(SplitLines(text), 1, i))
    ELSE Slice(text, 0, IF i < Len(text) THEN i ELSE Len(text))

\* C20: characters are only dropped, never inserted, changed or reordered: in
\* every loop the output so far is a subsequence of what the loop has
\* consumed, the text a scanner runs over is a subsequence of the input, and
\* the returned text is a subsequence of the input.
C20_OutputIsSubsequence ==
    /\ pc \in QuoteScanners \cup {"lines"} =>
         /\ IsSubseq(out, Consumed)
         /\ IsSubseq(text, src)
    /\ pc = "done" => IsSubseq(out, src)

\* k#\r\n : the line is cut to k and keeps its "\n"; "#" and "\r" are dropped.
C20_Witness ==
    /\ pc = "done" /\ lang = "ini" /\ src = <<"k", "#", "\r", "\n">>
    /\ out = <<"k", "\n">> /\ comments = 1

\* A Ruby block dropped, what follows it kept.
C20_WitnessRuby ==
    /\ pc = "done" /\ lang = "ruby"
    /\ src = BEGIN \o <<"\n">> \o END \o <<"x">>
    /\ out = <<"x">>

\* C21: for every profile the returned count of comments is zero exactly
\* when the returned count of removed characters is zero, and then the
\* returned text is the input.
C21_NoCommentNoChange ==
    pc = "done" =>
      /\ (comments = 0) <=> (removed_chars = 0)
      /\ comments = 0 => out = src

\* A bash text with a quoted "#" and a lone "/": nothing counted, nothing
\* changed.
C21_Witness ==
    /\ pc = "done" /\ lang = "bash" /\ src = <<"\"", "#", "\"", "/">>
    /\ comments = 0 /\ removed_chars = 0 /\ out = src

\* A cut line: one comment counted, characters removed, text changed.
C21_WitnessCounted ==
    /\ pc = "done" /\ lang = "ini" /\ src = <<"k", " ", ";", "\n">>
    /\ comments = 1 /\ removed_chars = 2 /\ out = <<"k", "\n">>

====
